---- MODULE Spec2Model ----
(***************************************************************************)
(* The sonification scheduling engine of earth-music: the React hook       *)
(* useEarthquakeSonifier (the version with the drone, the event voices and *)
(* the onEvent callback) as a state machine.                               *)
(*                                                                         *)
(* Time is counted in milliseconds.  `clock` is ctx.currentTime; the wall  *)
(* clock of window.setTimeout runs at the same rate, so a timer armed at   *)
(* clock c with delay d is due at clock c + d.  Gains are in thousandths.  *)
(***************************************************************************)
EXTENDS Integers, Sequences, FiniteSets, TLC

\* ------------------------------------------------------------ bounds
\* Longest event collection handed to the hook.
MaxEvents == 2
\* External calls (start, stop, a new features prop) per behaviour.
MaxCalls == 3
\* Passes of start() whose loop stalls, per behaviour.
MaxStalls == 1
\* How long (ms) one stall of the control thread inside start()'s loop lasts.
LoopStall == 1500
\* The last clock read of the loop before which a stall may fall.
MaxStallAt == 1

\* ------------------------------------------------- program constants
StartOffsetMs == 1000
TailMs == 10000
LeadMs == 20
ReleaseMs == 5000
NReleaseMs == 3500
StopPadMs == 500
FadeInMs == 5000
StopFadeMs == 2500
DroneOscStopMs == 3000
EndFadeMs == 5000
BASE_GAIN == 60
DefaultDurationSec == 60

\* ------------------------------------------------------------ inputs
\* EarthquakeFeature: properties.time, properties.mag and the latitude and
\* depth of geometry.coordinates.
Quake1 == [time |-> 1000, mag |-> 0, lat |-> 0 - 90, depthKm |-> 0]
Quake2 == [time |-> 4000, mag |-> 7, lat |-> 0, depthKm |-> 700]
Quake3 == [time |-> 5000, mag |-> 3, lat |-> 90, depthKm |-> 10]

EventPool == {Quake1, Quake2}

NoEvent == [time |-> 0, mag |-> 0, lat |-> 0, depthKm |-> 0]

SeqsUpTo(S, n) == UNION { [1..k -> S] : k \in 0..n }

\* The features prop: null, or a collection whose features array is `features`.
NullFeatures == [isNull |-> TRUE, features |-> <<>>]

FeatureChoices ==
  {NullFeatures} \cup
  { [isNull |-> FALSE, features |-> s] : s \in SeqsUpTo(EventPool, MaxEvents) }

DurationChoices == {2, DefaultDurationSec}

SeqRange(s) == { s[i] : i \in 1..Len(s) }

Max(a, b) == IF a >= b THEN a ELSE b
MinOf(S) == CHOOSE x \in S : \A y \in S : x <= y
MaxOf(S) == CHOOSE x \in S : \A y \in S : x >= y

\* ----------------------------------------------------------- numbers
\* A JavaScript number: NaN, or the rational n / d with d > 0.
NaN == [nan |-> TRUE, n |-> 0, d |-> 1]

Abs(x) == IF x < 0 THEN 0 - x ELSE x

RECURSIVE Gcd(_, _)
Gcd(a, b) == IF b = 0 THEN a ELSE Gcd(b, a % b)

\* n / d in lowest terms, for d # 0
Frac(n, d) ==
  LET g == Gcd(Abs(n), Abs(d))
      sign == IF d < 0 THEN 0 - 1 ELSE 1
  IN  [nan |-> FALSE, n |-> sign * (n \div g), d |-> Abs(d) \div g]

Num(v) == Frac(v, 1)

\* Number.isNaN
IsNaN(x) == x.nan

\* a === b, a <= b, a < b: false as soon as an operand is NaN
NumEq(a, b) == ~a.nan /\ ~b.nan /\ a.n * b.d = b.n * a.d
NumLeq(a, b) == ~a.nan /\ ~b.nan /\ a.n * b.d <= b.n * a.d
NumLess(a, b) == ~a.nan /\ ~b.nan /\ a.n * b.d < b.n * a.d

\* Math.max, Math.min: NaN as soon as an argument is NaN
MathMax(a, b) == IF a.nan \/ b.nan THEN NaN ELSE IF NumLess(a, b) THEN b ELSE a
MathMin(a, b) == IF a.nan \/ b.nan THEN NaN ELSE IF NumLess(b, a) THEN b ELSE a

\* a + b, a - b, a * b
NumAdd(a, b) == IF a.nan \/ b.nan THEN NaN ELSE Frac(a.n * b.d + b.n * a.d, a.d * b.d)
NumSub(a, b) == IF a.nan \/ b.nan THEN NaN ELSE Frac(a.n * b.d - b.n * a.d, a.d * b.d)
NumMul(a, b) == IF a.nan \/ b.nan THEN NaN ELSE Frac(a.n * b.n, a.d * b.d)

\* a / b for a divisor that is not zero; 0 / 0 is NaN
NumDiv(a, b) ==
  IF a.nan \/ b.nan \/ b.n = 0 THEN NaN ELSE Frac(a.n * b.d, a.d * b.n)

\* Math.floor
MathFloor(x) == IF x.nan THEN NaN ELSE Num(x.n \div x.d)

\* ---------------------------------------------------------- mapRange
\* Mutant of mapRange: the Number.isNaN test left out.
mapRangeNoNaNTest(value, inMin, inMax, outMin, outMax) ==
  LET clamped == MathMin(inMax, MathMax(inMin, value))
      norm == IF NumEq(inMax, inMin) THEN Num(0)
              ELSE NumDiv(NumSub(clamped, inMin), NumSub(inMax, inMin))
  IN  NumAdd(outMin, NumMul(norm, NumSub(outMax, outMin)))

mapRange(value, inMin, inMax, outMin, outMax) ==
  IF IsNaN(value) THEN outMin
  ELSE LET clamped == MathMin(inMax, MathMax(inMin, value))
           norm == IF NumEq(inMax, inMin) THEN Num(0)
                   ELSE NumDiv(NumSub(clamped, inMin), NumSub(inMax, inMin))
       IN  NumAdd(outMin, NumMul(norm, NumSub(outMax, outMin)))

\* ------------------------------------------- voice parameters
\* mag || 0: NaN and 0 give 0
OrZero(x) == IF x.nan \/ x.n = 0 THEN Num(0) ELSE x

\* const magClamped = Math.max(0, Math.min(7, mag || 0))
MagClamped(mag) == MathMax(Num(0), MathMin(Num(7), OrZero(mag)))

\* const scaleSemis = [0, 2, 4, 7, 9]
ScaleSemis == << 0, 2, 4, 7, 9 >>

\* Mutant of ScaleIndex: the range runs up to scaleSemis.length itself.
ScaleIndexToLength(mag) ==
  MathFloor(mapRange(MagClamped(mag), Num(0), Num(7), Num(0), Num(Len(ScaleSemis))))

\* const idx = Math.floor(mapRange(magClamped, 0, 7, 0, scaleSemis.length - 0.001))
ScaleIndex(mag) ==
  MathFloor(mapRange(MagClamped(mag), Num(0), Num(7), Num(0),
                     NumSub(Num(Len(ScaleSemis)), Frac(1, 1000))))

\* const peakGain = mapRange(magClamped, 0, 7, 0.03, 0.18)
PeakGain(mag) ==
  mapRange(MagClamped(mag), Num(0), Num(7), Frac(3, 100), Frac(18, 100))

\* scaleSemis[idx] is an element of the array
SemisDefined(idx) == ~idx.nan /\ idx.d = 1 /\ idx.n \in 0..(Len(ScaleSemis) - 1)

\* What scheduleEventVoice derives from a magnitude.
VoiceParams(mag) == [mag |-> mag, idx |-> ScaleIndex(mag), peakGain |-> PeakGain(mag)]

NoMapCall ==
  [called |-> FALSE, value |-> Num(0), inMin |-> Num(0), inMax |-> Num(0),
   outMin |-> Num(0), outMax |-> Num(0), result |-> Num(0)]

NoVoices == [called |-> FALSE, a |-> VoiceParams(Num(0)), b |-> VoiceParams(Num(0))]

VARIABLES
  isSupported,        \* "AudioContext" in window
  features,           \* options.features
  durationSec,        \* options.durationSec
  onEvent,            \* TRUE iff options.onEvent is supplied
  isPlaying,          \* useState(false)
  ctxState,           \* state of the AudioContext: none, suspended, running, closed
  audioCtxRef,        \* TRUE iff audioCtxRef.current is the context
  clock,              \* ctx.currentTime, ms
  droneRef,           \* droneRef.current
  endTimeoutRef,      \* endTimeoutRef.current, 0 is null
  transientNodesRef,  \* the Set of sources, in insertion order
  noiseBufferRef,     \* TRUE iff noiseBufferRef.current is set
  reverbBufferRef,    \* TRUE iff reverbBufferRef.current is set
  visualTimeoutsRef,  \* the array of timeout ids
  timers,             \* window's pending timeouts
  nextTimerId,        \* the id window.setTimeout returns next
  inflight,           \* start() calls suspended at `await ctx.resume()`
  disposed,           \* the cleanup effect has run
  lastCall,           \* history: the last external call
  stalls,             \* history: passes of start() whose loop stalled
  calls,              \* history: external calls made
  stopCount,          \* history: stop() calls made
  run,                \* history: the last completed scheduling pass
  endFires,           \* history: executions of an end-of-playback callback
  fired,              \* history: per event of the last pass, its onEvent invocations
  stopRamped,         \* history: the last stop() issued a ramp on the drone gain
  builds,             \* history: constructions of the noise buffer, the impulse
                      \* response and the drone
  rejects,            \* history: start() calls ended by a rejected ctx.resume()
  mapped,             \* the last function application, when of mapRange
  voiced              \* the last function application, when of the magnitude
                      \* mapping of scheduleEventVoice, to two magnitudes

vars ==
  << isSupported, features, durationSec, onEvent, isPlaying, ctxState,
     audioCtxRef, clock, droneRef, endTimeoutRef, transientNodesRef,
     noiseBufferRef, reverbBufferRef, visualTimeoutsRef, timers, nextTimerId,
     inflight, disposed, lastCall, stalls, calls, stopCount, run,
     endFires,
     fired, stopRamped, builds, rejects, mapped, voiced >>

\* ------------------------------------------------------------- drone
NotScheduled == 0 - 1

NullDrone == [isNull |-> TRUE, oscStopAt |-> NotScheduled, ramps |-> {}]

\* ensureDrone: the cached drone, or a new one whose three oscillators are
\* started and whose main gain is 0 with no automation.
NewDrone == [isNull |-> FALSE, oscStopAt |-> NotScheduled, ramps |-> {}]

ensureDrone(d) == IF ~d.isNull THEN d ELSE NewDrone

\* An automation event whose end time has passed no longer shapes the gain:
\* the audio thread has consumed it.
ConsumedBy(ramps, now) == { r \in ramps : r.endAt >= now }

\* Mutant of cancelScheduledValues: nothing is cancelled.
cancelNothing(ramps, now) == ramps

\* gain.cancelScheduledValues(now): the events at or after now are removed.
cancelScheduledValues(ramps, now) == { r \in ramps : r.endAt < now }

\* cancelScheduledValues(now); setValueAtTime(.., now);
\* linearRampToValueAtTime(target, now + len)
RampTo(d, now, target, len) ==
  [d EXCEPT !.ramps = cancelScheduledValues(ConsumedBy(d.ramps, now), now)
                        \cup {[target |-> target, endAt |-> now + len]}]

\* The drone's oscillators have been stopped: a stop time was scheduled.
DroneStopScheduled(d) == d.oscStopAt # NotScheduled

\* osc.stop(now + 3) on each drone oscillator, inside try/catch: an oscillator
\* that has already ended stays ended; otherwise the last stop time wins.
StopDroneOscs(d, now) ==
  IF DroneStopScheduled(d) /\ d.oscStopAt <= now
    THEN d
    ELSE [d EXCEPT !.oscStopAt = now + DroneOscStopMs]

\* ---------------------------------------------- construct-once caches
NoBuilds == [noise |-> 0, reverb |-> 0, drone |-> 0]

\* Mutant of getNoiseBufferBuilds: the presence check left out.
getNoiseBufferAlwaysBuilds(ref) == 1

\* getNoiseBuffer: the buffers one call constructs; ref tells whether
\* noiseBufferRef.current is set when it is called.
getNoiseBufferBuilds(ref) == IF ref THEN 0 ELSE 1

\* getReverbBuffer: the impulse responses one call constructs.
getReverbBufferBuilds(ref) == IF ref THEN 0 ELSE 1

\* ensureDrone: the drone topologies one call constructs.
ensureDroneBuilds(d) == IF ~d.isNull THEN 0 ELSE 1

\* The constructions of one pass of start() over n events: ensureDrone once
\* (and getReverbBuffer inside it when it builds), getNoiseBuffer once per event.
BuildsOfPass(b, d, noiseRef, reverbRef, n) ==
  [noise  |-> b.noise + (IF n = 0 THEN 0
                         ELSE getNoiseBufferBuilds(noiseRef)
                              + (n - 1) * getNoiseBufferBuilds(TRUE)),
   reverb |-> b.reverb + ensureDroneBuilds(d) * getReverbBufferBuilds(reverbRef),
   drone  |-> b.drone + ensureDroneBuilds(d)]

\* ------------------------------------------------- timeline mapping
\* Mutant of Quakes: the events sorted by timestamp before the loop.
QuakesSortedByTime(f) ==
  CHOOSE s \in [1..Len(f.features) -> SeqRange(f.features)] :
    /\ \A i \in 1..Len(s) : \A j \in 1..Len(s) : i < j => s[i].time <= s[j].time
    /\ \A e \in SeqRange(f.features) :
         Cardinality({ i \in 1..Len(s) : s[i] = e }) =
         Cardinality({ i \in 1..Len(f.features) : f.features[i] = e })

Quakes(f) == f.features

Times(quakes) == { quakes[i].time : i \in 1..Len(quakes) }

\* const spanMs = maxTime - minTime || 1
SpanMs(minTime, maxTime) ==
  IF maxTime - minTime = 0 THEN 1 ELSE maxTime - minTime

\* const timeScale = spanMs / totalDuration, kept as a fraction (ms per second)
TimeScale(spanMs, totalDuration) == [num |-> spanMs, den |-> totalDuration]

\* Mutant of OnsetTime: the start offset left out.
OnsetTimeNoOffset(now, time, minTime, timeScale) ==
  now + ((time - minTime) * timeScale.den * 1000) \div timeScale.num

\* const t = now + startOffset + relMs / timeScale, in ms
OnsetTime(now, time, minTime, timeScale) ==
  now + StartOffsetMs + ((time - minTime) * timeScale.den * 1000) \div timeScale.num

\* The onset of quakes[i] in a pass over quakes that read the clock at now.
Onset(quakes, totalDuration, now, i) ==
  LET minTime == MinOf(Times(quakes))
      maxTime == MaxOf(Times(quakes))
  IN  OnsetTime(now, quakes[i].time, minTime,
                TimeScale(SpanMs(minTime, maxTime), totalDuration))

\* ctx.currentTime at the j-th read inside the loop of a pass that began at
\* now: the audio clock runs on while the loop does, and the loop may stall
\* once, before read stallAt (0: no stall).
ReadClock(now, stallAt, j) ==
  IF stallAt # 0 /\ j >= stallAt THEN now + LoopStall ELSE now

\* ------------------------------------------------------ event voice
\* Mutant of SafeStart: the lead time used as it is.
SafeStartUnclamped(currentTime, time) == time - LeadMs

\* const safeStart = Math.max(ctx.currentTime, time - 0.02)
SafeStart(currentTime, time) == Max(currentTime, time - LeadMs)

\* scheduleEventVoice: the tone oscillator, then the noise source.
ToneNode(runNo, i, time, currentTime) ==
  [run |-> runNo, idx |-> i, kind |-> "osc", time |-> time,
   startAt |-> SafeStart(currentTime, time),
   stopAt |-> time + ReleaseMs + StopPadMs, readAt |-> currentTime]

NoiseNode(runNo, i, time, currentTime) ==
  [run |-> runNo, idx |-> i, kind |-> "noise", time |-> time,
   startAt |-> SafeStart(currentTime, time),
   stopAt |-> time + NReleaseMs + StopPadMs, readAt |-> currentTime]

\* The sources the loop adds to transientNodesRef, in the order it adds them.
ScheduledNodes(quakes, totalDuration, now, stallAt, runNo) ==
  [ j \in 1..(2 * Len(quakes)) |->
      LET i == (j + 1) \div 2
          t == Onset(quakes, totalDuration, now, i)
          c == ReadClock(now, stallAt, 2 * i - 1)
      IN  IF j % 2 = 1 THEN ToneNode(runNo, i, t, c) ELSE NoiseNode(runNo, i, t, c) ]

\* ----------------------------------------------------------- timers
\* Mutant of DelayMs: no floor at 0.
DelayMsUnclamped(t, currentTime) == t - currentTime

\* const delayMs = Math.max(0, (t - ctx.currentTime) * 1000)
DelayMs(t, currentTime) == Max(0, t - currentTime)

\* window.setTimeout(() => onEvent(feature), delayMs) for quakes[i]
VisualTimer(id, quakes, totalDuration, now, stallAt, runNo, i, epoch) ==
  LET c == ReadClock(now, stallAt, 2 * i)
      d == DelayMs(Onset(quakes, totalDuration, now, i), c)
  IN  [id |-> id, kind |-> "visual", fireAt |-> c + d, delay |-> d,
       run |-> runNo, idx |-> i, ev |-> quakes[i], epoch |-> epoch]

\* Mutant of EndDelayMs: no tail after the timeline.
EndDelayMsNoTail(totalDuration) == StartOffsetMs + totalDuration * 1000

\* (estimatedEnd - now) * 1000 with estimatedEnd = now + startOffset + durationSec + 10
EndDelayMs(totalDuration) == StartOffsetMs + totalDuration * 1000 + TailMs

EndTimer(id, totalDuration, armedAt, runNo, epoch) ==
  [id |-> id, kind |-> "end", fireAt |-> armedAt + EndDelayMs(totalDuration),
   delay |-> EndDelayMs(totalDuration), run |-> runNo, idx |-> 0,
   ev |-> NoEvent, epoch |-> epoch]

\* window.clearTimeout(id) for every id of ids
ClearTimeouts(ts, ids) == { t \in ts : t.id \notin ids }

\* Mutant of TimersKeptByStart: the previous end timeout is left armed.
TimersKeptByStartVisualOnly(ts, visIds, endId) == ClearTimeouts(ts, SeqRange(visIds))

\* The timeouts start() leaves pending: it clears the visual timeouts of
\* visualTimeoutsRef before the loop and the end timeout of endTimeoutRef after.
TimersKeptByStart(ts, visIds, endId) ==
  ClearTimeouts(ClearTimeouts(ts, SeqRange(visIds)), {endId})

\* The timer the event loop runs next: the earliest due one, ids breaking ties.
IsNextTimer(t) ==
  /\ t \in timers
  /\ t.fireAt <= clock
  /\ \A u \in timers : u.fireAt > t.fireAt \/ (u.fireAt = t.fireAt /\ u.id >= t.id)

\* ------------------------------------------------------------- state
NoRun == [n |-> 0, now |-> 0, input |-> <<>>, durationSec |-> 0, onEvent |-> FALSE]

InitWith(featureChoices, durationChoices) ==
  /\ isSupported \in BOOLEAN
  /\ features \in featureChoices
  /\ durationSec \in durationChoices
  /\ onEvent \in BOOLEAN
  /\ isPlaying = FALSE
  /\ ctxState = "none"
  /\ audioCtxRef = FALSE
  /\ clock = 0
  /\ droneRef = NullDrone
  /\ endTimeoutRef = 0
  /\ transientNodesRef = <<>>
  /\ noiseBufferRef = FALSE
  /\ reverbBufferRef = FALSE
  /\ visualTimeoutsRef = <<>>
  /\ timers = {}
  /\ nextTimerId = 1
  /\ inflight = <<>>
  /\ disposed = FALSE
  /\ lastCall = "none"
  /\ stalls = 0
  /\ calls = 0
  /\ stopCount = 0
  /\ run = NoRun
  /\ endFires = 0
  /\ fired = <<>>
  /\ stopRamped = FALSE
  /\ builds = NoBuilds
  /\ rejects = 0
  /\ mapped = NoMapCall
  /\ voiced = NoVoices

\* The hook after its first render, durationSec left to its default.
Init == InitWith(FeatureChoices, {DefaultDurationSec})

props == << isSupported, features, durationSec, onEvent >>

calcVars == << mapped, voiced >>

audioVars ==
  << isPlaying, clock, droneRef, endTimeoutRef, transientNodesRef,
     noiseBufferRef, reverbBufferRef, visualTimeoutsRef, timers, nextTimerId >>

runVars == << run, endFires, fired, stalls >>

\* A start() resumed by a settled ctx.resume() runs before any other task.
ContinuationDue == inflight # <<>> /\ ctxState = "running"

\* The hook may be called: it is mounted and the call budget is not spent.
Callable == ~disposed /\ calls < MaxCalls /\ ~ContinuationDue

\* ------------------------------------------------------------- start
\* if (!features || !features.features.length) return;
NoFeatures(f) == f.isNull \/ Len(f.features) = 0

\* Mutant of GetAudioContextIsNull: the support flag not looked at.
GetAudioContextIgnoringSupport(supported) == FALSE

\* getAudioContext returns null: if (!isSupported) return null;
GetAudioContextIsNull(supported) == ~supported

\* start() returns before touching anything.
StartIsNoop == NoFeatures(features) \/ GetAudioContextIsNull(isSupported)

\* The closure of the start callback of the current render.
Closure == [features |-> features, durationSec |-> durationSec, onEvent |-> onEvent]

\* start() from `const drone = ensureDrone(ctx)` to its end, for the closure c,
\* with the loop stalling before clock read stallAt.
StartPass(c, stallAt) ==
  LET quakes == Quakes(c.features)
      n == Len(quakes)
      now == clock
      runNo == run.n + 1
      visIds == IF c.onEvent THEN [i \in 1..n |-> nextTimerId + i - 1] ELSE <<>>
      endId == nextTimerId + Len(visIds)
      armedAt == ReadClock(now, stallAt, 2 * n)
      kept == TimersKeptByStart(timers, visualTimeoutsRef, endTimeoutRef)
  IN  /\ droneRef' = RampTo(ensureDrone(droneRef), now, BASE_GAIN, FadeInMs)
      /\ reverbBufferRef' = (reverbBufferRef \/ droneRef.isNull)
      /\ noiseBufferRef' = TRUE
      /\ builds' = BuildsOfPass(builds, droneRef, noiseBufferRef, reverbBufferRef, n)
      /\ transientNodesRef' =
           transientNodesRef \o ScheduledNodes(quakes, c.durationSec, now, stallAt, runNo)
      /\ visualTimeoutsRef' = visIds
      /\ timers' =
           kept \cup
           { VisualTimer(visIds[i], quakes, c.durationSec, now, stallAt, runNo, i, stopCount) :
               i \in 1..Len(visIds) } \cup
           { EndTimer(endId, c.durationSec, armedAt, runNo, stopCount) }
      /\ endTimeoutRef' = endId
      /\ nextTimerId' = endId + 1
      /\ isPlaying' = TRUE
      /\ clock' = armedAt
      /\ run' = [n |-> runNo, now |-> now, input |-> c.features.features,
                 durationSec |-> c.durationSec, onEvent |-> c.onEvent]
      /\ fired' = [i \in 1..n |-> 0]
      /\ stalls' = IF stallAt = 0 THEN stalls ELSE stalls + 1
      /\ UNCHANGED endFires

\* start() on an empty or absent collection, or without Web Audio.
StartNoop ==
  /\ Callable
  /\ StartIsNoop
  /\ lastCall' = "startNoop"
  /\ calls' = calls + 1
  /\ UNCHANGED << calcVars, builds, rejects, props, audioVars, runVars, ctxState, audioCtxRef, inflight,
                  disposed, stopCount, stopRamped >>

\* start() up to `await ctx.resume()`: the context, created on first use,
\* is suspended (st is the state a new context starts in).
StartAwait(st) ==
  /\ Callable
  /\ ~StartIsNoop
  /\ (IF ctxState = "none" THEN st ELSE ctxState) = "suspended"
  /\ ctxState' = "suspended"
  /\ audioCtxRef' = TRUE
  /\ inflight' = Append(inflight, Closure)
  /\ lastCall' = "startAwait"
  /\ calls' = calls + 1
  /\ UNCHANGED << calcVars, builds, rejects, props, audioVars, runVars, disposed, stopCount,
                  stopRamped >>

\* start() on a running context: no await, the whole pass in one task.
StartRunning(st, stallAt) ==
  /\ Callable
  /\ ~StartIsNoop
  /\ (IF ctxState = "none" THEN st ELSE ctxState) = "running"
  /\ stallAt \in 0..MaxStallAt
  /\ stallAt <= 2 * Len(Quakes(features))
  /\ stallAt = 0 \/ stalls < MaxStalls
  /\ ctxState' = "running"
  /\ audioCtxRef' = TRUE
  /\ StartPass(Closure, stallAt)
  /\ lastCall' = "start"
  /\ calls' = calls + 1
  /\ UNCHANGED << calcVars, rejects, props, inflight, disposed, stopCount, stopRamped >>

\* ctx.resume() succeeds: the context runs.
ResumeResolve ==
  /\ ctxState = "suspended"
  /\ inflight # <<>>
  /\ ctxState' = "running"
  /\ UNCHANGED << calcVars, builds, rejects, props, audioVars, runVars, audioCtxRef, inflight, disposed,
                  calls, lastCall, stopCount, stopRamped >>

\* The rest of a start() whose await has settled.  On a context closed in the
\* meantime the resolved promise continues the same way.
StartContinue(stallAt) ==
  /\ inflight # <<>>
  /\ ctxState \in {"running", "closed"}
  /\ stallAt \in 0..MaxStallAt
  /\ stallAt <= 2 * Len(Quakes(Head(inflight).features))
  /\ stallAt = 0 \/ stalls < MaxStalls
  /\ StartPass(Head(inflight), stallAt)
  /\ inflight' = Tail(inflight)
  /\ UNCHANGED << calcVars, rejects, props, ctxState, audioCtxRef, disposed, calls,
                  lastCall, stopCount, stopRamped >>

\* Mutant of ResumeReject: the drone is obtained before the await.
ResumeRejectAfterDrone ==
  /\ inflight # <<>>
  /\ ctxState \in {"suspended", "closed"}
  /\ inflight' = Tail(inflight)
  /\ rejects' = rejects + 1
  /\ droneRef' = ensureDrone(droneRef)
  /\ reverbBufferRef' = (reverbBufferRef \/ droneRef.isNull)
  /\ builds' = [builds EXCEPT !.drone = @ + ensureDroneBuilds(droneRef),
                              !.reverb = @ + ensureDroneBuilds(droneRef)
                                             * getReverbBufferBuilds(reverbBufferRef)]
  /\ UNCHANGED << calcVars, props, isPlaying, clock, endTimeoutRef, transientNodesRef,
                  noiseBufferRef, visualTimeoutsRef, timers, nextTimerId, runVars,
                  ctxState, audioCtxRef, disposed, calls, lastCall, stopCount,
                  stopRamped >>

\* ctx.resume() rejects: the await throws and start() ends there.
ResumeReject ==
  /\ inflight # <<>>
  /\ ctxState \in {"suspended", "closed"}
  /\ inflight' = Tail(inflight)
  /\ rejects' = rejects + 1
  /\ UNCHANGED << calcVars, builds, props, audioVars, runVars, ctxState, audioCtxRef, disposed,
                  calls, lastCall, stopCount, stopRamped >>

\* -------------------------------------------------------------- stop
\* Mutant of DroneAfterStop: stop() obtains the drone through ensureDrone.
DroneAfterStopEnsured(d, hasCtx, now) ==
  StopDroneOscs(RampTo(ensureDrone(d), now, 0, StopFadeMs), now)

\* if (ctx && drone) { fade the main gain out; osc.stop(now + 3) on each osc }
DroneAfterStop(d, hasCtx, now) ==
  IF hasCtx /\ ~d.isNull
    THEN StopDroneOscs(RampTo(d, now, 0, StopFadeMs), now)
    ELSE d

\* node.stop() on every transient node, then transientNodesRef.current.clear()
NodesAfterStop(nodes) == SubSeq(nodes, 1, 0)

\* Mutant of TimersAfterStop: only the end timeout is cleared.
TimersAfterStopEndOnly(ts, visIds, endId) == ClearTimeouts(ts, {endId})

\* clearTimeout on every visual timeout and on the end timeout
TimersAfterStop(ts, visIds, endId) ==
  ClearTimeouts(ClearTimeouts(ts, SeqRange(visIds)), {endId})

\* The body of stop().
StopBody ==
  /\ droneRef' = DroneAfterStop(droneRef, audioCtxRef, clock)
  /\ transientNodesRef' = NodesAfterStop(transientNodesRef)
  /\ timers' = TimersAfterStop(timers, visualTimeoutsRef, endTimeoutRef)
  /\ visualTimeoutsRef' = <<>>
  /\ endTimeoutRef' = 0
  /\ isPlaying' = FALSE
  /\ stopCount' = stopCount + 1
  /\ stopRamped' = (audioCtxRef /\ ~droneRef.isNull)

Stop ==
  /\ Callable
  /\ StopBody
  /\ lastCall' = "stop"
  /\ calls' = calls + 1
  /\ UNCHANGED << calcVars, builds, rejects, props, runVars, ctxState, audioCtxRef, clock, noiseBufferRef,
                  reverbBufferRef, nextTimerId, inflight, disposed >>

\* The cleanup of the effect whose only dependency is stop: it runs when the
\* component unmounts.  stop(), then the context is closed and the refs nulled.
Dispose ==
  /\ ~disposed
  /\ ~ContinuationDue
  /\ transientNodesRef' = NodesAfterStop(transientNodesRef)
  /\ timers' = TimersAfterStop(timers, visualTimeoutsRef, endTimeoutRef)
  /\ visualTimeoutsRef' = <<>>
  /\ endTimeoutRef' = 0
  /\ isPlaying' = FALSE
  /\ stopCount' = stopCount + 1
  /\ stopRamped' = (audioCtxRef /\ ~droneRef.isNull)
  /\ ctxState' = IF audioCtxRef THEN "closed" ELSE ctxState
  /\ audioCtxRef' = FALSE
  /\ droneRef' = NullDrone
  /\ noiseBufferRef' = FALSE
  /\ reverbBufferRef' = FALSE
  /\ disposed' = TRUE
  /\ lastCall' = "dispose"
  /\ UNCHANGED << calcVars, builds, rejects, props, runVars, clock, nextTimerId, inflight, calls >>

\* A re-render with another features prop.  start is re-created; stop and the
\* cleanup effect, which depend on nothing that changed, are left alone.
SetFeatures(f) ==
  /\ Callable
  /\ f # features
  /\ features' = f
  /\ calls' = calls + 1
  /\ lastCall' = "setFeatures"
  /\ UNCHANGED << calcVars, builds, rejects, isSupported, durationSec, onEvent, audioVars, runVars, ctxState,
                  audioCtxRef, inflight, disposed, stopCount, stopRamped >>

\* ------------------------------------------------------- event loop
\* A visual timeout runs: onEvent(feature).
FireVisual(t) ==
  /\ ~ContinuationDue
  /\ IsNextTimer(t)
  /\ t.kind = "visual"
  /\ timers' = timers \ {t}
  /\ fired' = IF t.run = run.n THEN [fired EXCEPT ![t.idx] = @ + 1] ELSE fired
  /\ UNCHANGED << calcVars, builds, rejects, props, isPlaying, clock, droneRef, endTimeoutRef,
                  transientNodesRef, noiseBufferRef, reverbBufferRef,
                  visualTimeoutsRef, nextTimerId, run, endFires, stalls, ctxState,
                  audioCtxRef, inflight, disposed, calls, lastCall, stopCount, stopRamped >>

\* Mutant of DroneAfterEnd: no fade-out.
DroneAfterEndNoFade(d, ctxNow) == d

\* if (droneNow) { cancel, hold the current value, ramp to 0 over 5 s }
DroneAfterEnd(d, ctxNow) ==
  IF d.isNull THEN d ELSE RampTo(d, ctxNow, 0, EndFadeMs)

\* Mutant of FireEnd: the callback fades the drone but leaves isPlaying.
FireEndKeepsPlaying(t) ==
  /\ ~ContinuationDue
  /\ IsNextTimer(t)
  /\ t.kind = "end"
  /\ timers' = timers \ {t}
  /\ droneRef' = DroneAfterEnd(droneRef, clock)
  /\ endFires' = endFires + 1
  /\ UNCHANGED << calcVars, builds, rejects, props, isPlaying, clock, endTimeoutRef,
                  transientNodesRef, noiseBufferRef, reverbBufferRef,
                  visualTimeoutsRef, nextTimerId, run, fired, stalls, ctxState,
                  audioCtxRef, inflight, disposed, calls, lastCall, stopCount,
                  stopRamped >>

\* The end-of-playback timeout runs: the drone fades out, isPlaying is false.
FireEnd(t) ==
  /\ ~ContinuationDue
  /\ IsNextTimer(t)
  /\ t.kind = "end"
  /\ timers' = timers \ {t}
  /\ droneRef' = DroneAfterEnd(droneRef, clock)
  /\ isPlaying' = FALSE
  /\ endFires' = endFires + 1
  /\ UNCHANGED << calcVars, builds, rejects, props, clock, endTimeoutRef, transientNodesRef, noiseBufferRef,
                  reverbBufferRef, visualTimeoutsRef, nextTimerId, run, fired, stalls,
                  ctxState, audioCtxRef, inflight, disposed, calls, lastCall, stopCount, stopRamped >>

RemoveAt(s, i) == SubSeq(s, 1, i - 1) \o SubSeq(s, i + 1, Len(s))

\* A source reaches its stop time: its "ended" listener deletes it from the set.
NodeEnded(i) ==
  /\ ~ContinuationDue
  /\ i \in 1..Len(transientNodesRef)
  /\ transientNodesRef[i].stopAt <= clock
  /\ transientNodesRef' = RemoveAt(transientNodesRef, i)
  /\ UNCHANGED << calcVars, builds, rejects, props, isPlaying, clock, droneRef, endTimeoutRef,
                  noiseBufferRef, reverbBufferRef, visualTimeoutsRef, timers,
                  nextTimerId, runVars, ctxState, audioCtxRef, inflight,
                  disposed, calls, lastCall, stopCount, stopRamped >>

\* The instants at which something is due.
EventTimes ==
  { t.fireAt : t \in timers } \cup
  { transientNodesRef[i].stopAt : i \in 1..Len(transientNodesRef) } \cup
  (IF DroneStopScheduled(droneRef) THEN {droneRef.oscStopAt} ELSE {})

\* Time passes, up to the next instant at which something is due; what is due
\* now runs first.
Tick ==
  /\ ~ContinuationDue
  /\ \A t \in timers : t.fireAt > clock
  /\ \A i \in 1..Len(transientNodesRef) : transientNodesRef[i].stopAt > clock
  /\ \E e \in EventTimes : e > clock
  /\ clock' = MinOf({ e \in EventTimes : e > clock })
  /\ UNCHANGED << calcVars, builds, rejects, props, isPlaying, droneRef, endTimeoutRef, transientNodesRef,
                  noiseBufferRef, reverbBufferRef, visualTimeoutsRef, timers,
                  nextTimerId, runVars, ctxState, audioCtxRef, inflight,
                  disposed, calls, lastCall, stopCount, stopRamped >>

NewContextStates == {"suspended", "running"}

Next ==
  \/ StartNoop
  \/ \E st \in NewContextStates : StartAwait(st)
  \/ \E st \in NewContextStates : \E k \in 0..MaxStallAt : StartRunning(st, k)
  \/ ResumeResolve
  \/ \E k \in 0..MaxStallAt : StartContinue(k)
  \/ ResumeReject
  \/ Stop
  \/ Dispose
  \/ \E f \in FeatureChoices : SetFeatures(f)
  \/ \E t \in timers : FireVisual(t)
  \/ \E t \in timers : FireEnd(t)
  \/ \E i \in 1..Len(transientNodesRef) : NodeEnded(i)
  \/ Tick

Spec == Init /\ [][Next]_vars

\* ------------------------------------------------ one uninterrupted run
\* Longest collection of a run that nothing interrupts.
MaxRunEvents == 3

RunEventPool == {Quake1, Quake2, Quake3}

RunFeatureChoices ==
  {NullFeatures} \cup
  { [isNull |-> FALSE, features |-> s] : s \in SeqsUpTo(RunEventPool, MaxRunEvents) }

InitRun == InitWith(RunFeatureChoices, DurationChoices)

\* No start() has been called yet.
NotStarted == run.n = 0 /\ inflight = <<>>

\* The hook with at most one start() that gets past its guards and no other
\* call: neither start() nor stop() nor disposal follows the scheduling pass.
NextRun ==
  \/ NotStarted /\ StartNoop
  \/ NotStarted /\ \E st \in NewContextStates : StartAwait(st)
  \/ NotStarted /\ \E st \in NewContextStates : \E k \in 0..MaxStallAt : StartRunning(st, k)
  \/ ResumeResolve
  \/ \E k \in 0..MaxStallAt : StartContinue(k)
  \/ ResumeReject
  \/ \E t \in timers : FireVisual(t)
  \/ \E t \in timers : FireEnd(t)
  \/ \E i \in 1..Len(transientNodesRef) : NodeEnded(i)
  \/ Tick

\* The event loop runs what is due, and time passes.
EventLoopFairness ==
  /\ WF_vars(Tick)
  /\ WF_vars(\E t \in timers : FireVisual(t))
  /\ WF_vars(\E t \in timers : FireEnd(t))
  /\ WF_vars(\E i \in 1..Len(transientNodesRef) : NodeEnded(i))

RunSpec == InitRun /\ [][NextRun]_vars /\ EventLoopFairness

\* ------------------------------------------- the mapping functions
\* Largest integer handed to mapRange as a range bound.
MaxArg == 2
\* Largest magnitude handed to scheduleEventVoice, in halves.
MaxMagHalves == 16

\* value: NaN, or an integer from below the ranges to above them.
ValueChoices == {NaN} \cup { Num(v) : v \in (0 - 1)..(MaxArg + 1) }

ArgChoices == { Num(v) : v \in 0..MaxArg }

\* properties.mag: NaN, or a magnitude from -1 to above 7 in steps of 0.5.
Magnitudes == {NaN} \cup { Frac(k, 2) : k \in (0 - 2)..MaxMagHalves }

hookVars ==
  << isSupported, features, durationSec, onEvent, isPlaying, ctxState,
     audioCtxRef, clock, droneRef, endTimeoutRef, transientNodesRef,
     noiseBufferRef, reverbBufferRef, visualTimeoutsRef, timers, nextTimerId,
     inflight, disposed, lastCall, stalls, calls, stopCount, run, endFires,
     fired, stopRamped, builds, rejects >>

\* The functions are applied on their own: no features, no call of the hook.
InitCalc == InitWith({NullFeatures}, {DefaultDurationSec}) /\ isSupported /\ ~onEvent

\* mapRange(value, inMin, inMax, outMin, outMax)
ApplyMapRange(value, inMin, inMax, outMin, outMax) ==
  /\ mapped' = [called |-> TRUE, value |-> value, inMin |-> inMin, inMax |-> inMax,
                outMin |-> outMin, outMax |-> outMax,
                result |-> mapRange(value, inMin, inMax, outMin, outMax)]
  /\ voiced' = NoVoices
  /\ UNCHANGED hookVars

\* scheduleEventVoice's magnitude mapping, for the magnitudes of two events.
ApplyVoiceParams(magA, magB) ==
  /\ voiced' = [called |-> TRUE, a |-> VoiceParams(magA), b |-> VoiceParams(magB)]
  /\ mapped' = NoMapCall
  /\ UNCHANGED hookVars

NextCalc ==
  \/ \E value \in ValueChoices : \E inMin \in ArgChoices : \E inMax \in ArgChoices :
       \E outMin \in ArgChoices : \E outMax \in ArgChoices :
         ApplyMapRange(value, inMin, inMax, outMin, outMax)
  \/ \E magA \in Magnitudes : \E magB \in Magnitudes : ApplyVoiceParams(magA, magB)

CalcSpec == InitCalc /\ [][NextCalc]_vars

\* ------------------------------------------------- the earlier hook
\* The earlier version of the hook (hooks/useEarthquakeSonifier.ts) keeps an
\* audio context, a set of active oscillators and isPlaying.
LegacyHook(ctx, nodes, playing) ==
  [audioCtxRef |-> ctx, activeNodesRef |-> nodes, isPlaying |-> playing]

\* Its stop(): if (!ctx) return; node.stop() on every active node, the set
\* cleared, setIsPlaying(false).
LegacyStop(h) ==
  IF ~h.audioCtxRef
    THEN h
    ELSE [h EXCEPT !.activeNodesRef = NodesAfterStop(h.activeNodesRef),
                   !.isPlaying = FALSE]

\* const startOffset = 0.1
LegacyStartOffsetMs == 100
\* estimatedEnd = ctx.currentTime + 0.1 + durationSec + 2: the 2 s after the timeline
LegacyTailMs == 2000
\* osc.stop(time + duration + 0.1)
LegacyStopPadMs == 100

\* const duration = mapRange(magClamped, 0, 7, 0.4, 1.6), in whole ms
LegacyDurationMs(mag) ==
  MathFloor(mapRange(MagClamped(Num(mag)), Num(0), Num(7), Num(400), Num(1600))).n

\* const t = now + startOffset + relMs / timeScale, in ms
LegacyOnset(quakes, totalDuration, now, i) ==
  LET minTime == MinOf(Times(quakes))
      maxTime == MaxOf(Times(quakes))
      timeScale == TimeScale(SpanMs(minTime, maxTime), totalDuration)
  IN  now + LegacyStartOffsetMs
      + ((quakes[i].time - minTime) * timeScale.den * 1000) \div timeScale.num

\* scheduleQuakeSound: one oscillator, osc.start(time), osc.stop(time + duration + 0.1)
LegacyNode(runNo, i, time, mag, currentTime) ==
  [run |-> runNo, idx |-> i, kind |-> "osc", time |-> time, startAt |-> time,
   stopAt |-> time + LegacyDurationMs(mag) + LegacyStopPadMs, readAt |-> currentTime]

\* (estimatedEnd - ctx.currentTime) * 1000
LegacyEndDelayMs(totalDuration) ==
  LegacyStartOffsetMs + totalDuration * 1000 + LegacyTailMs

\* const id = setTimeout(() => setIsPlaying(false), ...): the id goes only into
\* the function start() returns, which no caller keeps.
LegacyEndTimer(id, totalDuration, armedAt, runNo, epoch) ==
  [id |-> id, kind |-> "end", fireAt |-> armedAt + LegacyEndDelayMs(totalDuration),
   delay |-> LegacyEndDelayMs(totalDuration), run |-> runNo, idx |-> 0,
   ev |-> NoEvent, epoch |-> epoch]

\* The timeouts pending after the earlier hook's stop(): it clears none.
LegacyTimersAfterStop(ts) == ts

\* The earlier start() after its await, for the closure c.
LegacyStartPass(c) ==
  LET quakes == Quakes(c.features)
      n == Len(quakes)
      now == clock
      runNo == run.n + 1
  IN  /\ transientNodesRef' =
           transientNodesRef \o
           [ i \in 1..n |->
               LegacyNode(runNo, i, LegacyOnset(quakes, c.durationSec, now, i),
                          quakes[i].mag, now) ]
      /\ isPlaying' = TRUE
      /\ timers' = timers \cup
                   { LegacyEndTimer(nextTimerId, c.durationSec, now, runNo, stopCount) }
      /\ nextTimerId' = nextTimerId + 1
      /\ run' = [n |-> runNo, now |-> now, input |-> c.features.features,
                 durationSec |-> c.durationSec, onEvent |-> FALSE]
      /\ UNCHANGED << clock, droneRef, endTimeoutRef, noiseBufferRef, reverbBufferRef,
                      visualTimeoutsRef, builds, endFires, fired, stalls >>

\* The earlier start() on a running context.
LegacyStartRunning(st) ==
  /\ Callable
  /\ ~StartIsNoop
  /\ (IF ctxState = "none" THEN st ELSE ctxState) = "running"
  /\ ctxState' = "running"
  /\ audioCtxRef' = TRUE
  /\ LegacyStartPass(Closure)
  /\ lastCall' = "start"
  /\ calls' = calls + 1
  /\ UNCHANGED << calcVars, rejects, props, inflight, disposed, stopCount, stopRamped >>

\* The rest of an earlier start() whose await has settled.
LegacyStartContinue ==
  /\ inflight # <<>>
  /\ ctxState \in {"running", "closed"}
  /\ LegacyStartPass(Head(inflight))
  /\ inflight' = Tail(inflight)
  /\ UNCHANGED << calcVars, rejects, props, ctxState, audioCtxRef, disposed, calls,
                  lastCall, stopCount, stopRamped >>

\* A call of the earlier stop().
LegacyStopCall ==
  /\ Callable
  /\ LET h == LegacyStop(LegacyHook(audioCtxRef, transientNodesRef, isPlaying))
     IN  /\ transientNodesRef' = h.activeNodesRef
         /\ isPlaying' = h.isPlaying
  /\ timers' = LegacyTimersAfterStop(timers)
  /\ stopCount' = stopCount + 1
  /\ lastCall' = "stop"
  /\ calls' = calls + 1
  /\ UNCHANGED << calcVars, builds, rejects, props, runVars, ctxState, audioCtxRef,
                  clock, droneRef, endTimeoutRef, noiseBufferRef, reverbBufferRef,
                  visualTimeoutsRef, nextTimerId, inflight, disposed, stopRamped >>

\* The earlier hook's unmount cleanup: stop(), then the context is closed and
\* its ref nulled.
LegacyDispose ==
  /\ ~disposed
  /\ ~ContinuationDue
  /\ LET h == LegacyStop(LegacyHook(audioCtxRef, transientNodesRef, isPlaying))
     IN  /\ transientNodesRef' = h.activeNodesRef
         /\ isPlaying' = h.isPlaying
  /\ timers' = LegacyTimersAfterStop(timers)
  /\ stopCount' = stopCount + 1
  /\ ctxState' = IF audioCtxRef THEN "closed" ELSE ctxState
  /\ audioCtxRef' = FALSE
  /\ disposed' = TRUE
  /\ lastCall' = "dispose"
  /\ UNCHANGED << calcVars, builds, rejects, props, runVars, clock, droneRef,
                  endTimeoutRef, noiseBufferRef, reverbBufferRef, visualTimeoutsRef,
                  nextTimerId, inflight, calls, stopRamped >>

\* An end timeout of the earlier hook runs: setIsPlaying(false).
LegacyFireEnd(t) ==
  /\ ~ContinuationDue
  /\ IsNextTimer(t)
  /\ t.kind = "end"
  /\ timers' = timers \ {t}
  /\ isPlaying' = FALSE
  /\ endFires' = endFires + 1
  /\ UNCHANGED << calcVars, builds, rejects, props, clock, droneRef, endTimeoutRef,
                  transientNodesRef, noiseBufferRef, reverbBufferRef,
                  visualTimeoutsRef, nextTimerId, run, fired, stalls, ctxState,
                  audioCtxRef, inflight, disposed, calls, lastCall, stopCount,
                  stopRamped >>

\* The earlier hook takes no onEvent.
InitLegacy == InitWith(FeatureChoices, {DefaultDurationSec}) /\ ~onEvent

\* The guards of start(), its await and the event loop are the same in both
\* versions of the hook.
NextLegacy ==
  \/ StartNoop
  \/ \E st \in NewContextStates : StartAwait(st)
  \/ \E st \in NewContextStates : LegacyStartRunning(st)
  \/ ResumeResolve
  \/ LegacyStartContinue
  \/ ResumeReject
  \/ LegacyStopCall
  \/ LegacyDispose
  \/ \E t \in timers : LegacyFireEnd(t)
  \/ \E i \in 1..Len(transientNodesRef) : NodeEnded(i)
  \/ Tick

LegacySpec == InitLegacy /\ [][NextLegacy]_vars

\* ------------------------------------------------------------ claims
IsNoise(nd) == nd.kind = "noise"

NodeIdx == 1..Len(transientNodesRef)

VisualTimers == { t \in timers : t.kind = "visual" }

EndTimers == { t \in timers : t.kind = "end" }

\* The onset the timeline mapping gives input[i] in a run of d seconds whose
\* clock read was now: now + startOffset + (time - minTime) * d / spanMs.
MappedOnset(input, d, now, i) ==
  LET minT == MinOf(Times(input))
      maxT == MaxOf(Times(input))
      spanMs == Max(maxT - minT, 1)
  IN  now + StartOffsetMs + ((input[i].time - minT) * d * 1000) \div spanMs

\* A step in which stop() ran (as a call, or inside the cleanup).
StopStep == stopCount' = stopCount + 1

\* A step in which a visual timeout ran its callback.
VisualStep ==
  /\ timers' # timers
  /\ timers' \subseteq timers
  /\ timers \ timers' \subseteq VisualTimers
  /\ stopCount' = stopCount
  /\ run' = run

\* A step in which start() was called.
StartCallStep ==
  /\ calls' = calls + 1
  /\ lastCall' \in {"startNoop", "startAwait", "start"}

\* C1: right after any stop() the active-voice set is empty, no visual timer
\* and no end-of-playback timer is pending and isPlaying is false; no visual
\* callback armed before a stop() runs after it.
StopPostcondition ==
  [][ /\ StopStep =>
           /\ transientNodesRef' = <<>>
           /\ timers' = {}
           /\ visualTimeoutsRef' = <<>>
           /\ endTimeoutRef' = 0
           /\ ~isPlaying'
      /\ VisualStep => \A t \in timers \ timers' : t.epoch = stopCount ]_vars

\* C1, its case: stop() in the middle of a run, after the first callback and
\* before the last.
StoppedMidRun ==
  /\ lastCall = "stop"
  /\ run.n >= 1
  /\ run.onEvent
  /\ endFires = 0
  /\ \E i \in 1..Len(fired) : fired[i] = 1
  /\ \E i \in 1..Len(fired) : fired[i] = 0
  /\ timers = {}
  /\ transientNodesRef = <<>>

\* C2: a stop() that directly follows a stop() has no effect of its own: it
\* issues no fade-out ramp on the drone's main gain and leaves the drone as
\* the first stop() left it.
SecondStopDoesNothing ==
  [][ (lastCall = "stop" /\ lastCall' = "stop" /\ StopStep) =>
        (~stopRamped' /\ droneRef' = droneRef) ]_vars

\* C3: while the engine is alive the drone's oscillators are never stopped:
\* no stop time is ever scheduled on them.
DroneSourcesNeverStopped ==
  ~droneRef.isNull => ~DroneStopScheduled(droneRef)

\* C4: start() on a null or empty collection, or on a platform without Web
\* Audio, changes nothing: no context, drone, voice or timer, isPlaying as it
\* was; isPlaying is never true on an unsupported platform.
StartNoopFrame ==
  /\ [][ (StartCallStep /\ (features.isNull \/ Len(features.features) = 0 \/ ~isSupported)) =>
           UNCHANGED << audioVars, ctxState, audioCtxRef, inflight, run >> ]_vars
  /\ [](~isSupported => (~isPlaying /\ ctxState = "none" /\ timers = {}))

\* C4, its case: start() on a collection that became empty while a run plays.
StartOnEmptyWhilePlaying ==
  /\ lastCall = "startNoop"
  /\ isSupported
  /\ ~features.isNull
  /\ Len(features.features) = 0
  /\ isPlaying
  /\ timers # {}

\* C5: replacing the features prop while a run is playing tears down every
\* voice and every timer of that run.
ReplacementTearsDown ==
  [][ (features' # features /\ isPlaying) =>
        (transientNodesRef' = <<>> /\ timers' = {}) ]_vars

\* C6: in a run nothing interrupts there is a single end-of-playback timer,
\* armed with a delay of startOffset + durationSec + 10 s; it fires, once,
\* and then the drone fades to 0 and isPlaying is false.
NaturalEnd ==
  /\ [](run.n = 1 => Cardinality(EndTimers) + endFires = 1)
  /\ [](\A t \in EndTimers :
          /\ t.delay = StartOffsetMs + run.durationSec * 1000 + TailMs
          /\ t.fireAt >= run.now + t.delay
          /\ isPlaying)
  /\ [](endFires = 1 =>
          /\ ~isPlaying
          /\ ~droneRef.isNull
          /\ \E r \in droneRef.ramps : r.target = 0
          /\ \A r \in droneRef.ramps : r.target = 0)
  /\ (run.n = 1) ~> (endFires = 1 /\ ~isPlaying)

\* C6, its case: the run has ended by its timer.
EndedNaturally ==
  /\ run.n = 1
  /\ endFires = 1
  /\ ~isPlaying
  /\ EndTimers = {}

\* C7: the onset of every event of a run is
\* clockNow + startOffset + (time - minTime) * durationSec / max(maxTime - minTime, 1):
\* within [clockNow + startOffset, clockNow + startOffset + durationSec],
\* clockNow + startOffset for an event of minimum timestamp, and durationSec
\* later than that for one of maximum timestamp when maxTime > minTime.
TimelineMapping ==
  \A j \in NodeIdx :
    LET nd == transientNodesRef[j]
        lo == run.now + StartOffsetMs
        hi == run.now + StartOffsetMs + run.durationSec * 1000
        minT == MinOf(Times(run.input))
        maxT == MaxOf(Times(run.input))
    IN  nd.run = run.n =>
          /\ nd.time = MappedOnset(run.input, run.durationSec, run.now, nd.idx)
          /\ lo <= nd.time
          /\ nd.time <= hi
          /\ (run.input[nd.idx].time = minT => nd.time = lo)
          /\ (maxT > minT /\ run.input[nd.idx].time = maxT => nd.time - lo = run.durationSec * 1000)

\* C7, its case: a run with an event strictly between the first and the last.
OnsetBetween ==
  \E j \in NodeIdx :
    /\ transientNodesRef[j].run = run.n
    /\ transientNodesRef[j].time > run.now + StartOffsetMs
    /\ transientNodesRef[j].time < run.now + StartOffsetMs + run.durationSec * 1000

\* C8: voices and visual timers are created in input order, the i-th for the
\* i-th event of the input, unsorted; onsets are monotone in the timestamp.
InputOrder ==
  /\ \A j \in NodeIdx : \A k \in NodeIdx :
       LET a == transientNodesRef[j]
           b == transientNodesRef[k]
       IN  (a.run = run.n /\ b.run = run.n) =>
             /\ (j < k => a.idx <= b.idx)
             /\ (run.input[a.idx].time <= run.input[b.idx].time => a.time <= b.time)
  /\ \A j \in NodeIdx :
       LET nd == transientNodesRef[j]
       IN  nd.run = run.n =>
             /\ nd.time = MappedOnset(run.input, run.durationSec, run.now, nd.idx)
             /\ (Len(transientNodesRef) = 2 * Len(run.input) => nd.idx = (j + 1) \div 2)
  /\ \A i \in 1..Len(visualTimeoutsRef) :
       /\ (i > 1 => visualTimeoutsRef[i - 1] < visualTimeoutsRef[i])
       /\ \A t \in timers :
            t.id = visualTimeoutsRef[i] =>
              (t.kind = "visual" /\ t.idx = i /\ t.ev = run.input[i])

\* C8, its case: an input out of timestamp order, so that an earlier voice
\* has the later onset.
UnsortedInput ==
  \E j \in NodeIdx : \E k \in NodeIdx :
    /\ j < k
    /\ transientNodesRef[j].run = run.n
    /\ transientNodesRef[k].run = run.n
    /\ transientNodesRef[j].time > transientNodesRef[k].time
    /\ VisualTimers # {}

\* C9: a completed start() on N events adds exactly 2N sources, one tone and
\* one noise per event, duplicates included; each starts at
\* max(current clock, onset - 0.02 s), never before the current clock.
NoEventSkipped ==
  /\ [](\A j \in NodeIdx :
          LET nd == transientNodesRef[j]
          IN  /\ nd.startAt = Max(nd.readAt, nd.time - LeadMs)
              /\ nd.startAt >= nd.readAt)
  /\ [][ run'.n = run.n + 1 =>
           LET n == Len(run'.input)
               added == SubSeq(transientNodesRef', Len(transientNodesRef) + 1,
                               Len(transientNodesRef'))
           IN  /\ Len(transientNodesRef') = Len(transientNodesRef) + 2 * n
               /\ \A i \in 1..n :
                    /\ Cardinality({ j \in 1..Len(added) :
                         added[j].idx = i /\ added[j].run = run'.n /\ ~IsNoise(added[j]) }) = 1
                    /\ Cardinality({ j \in 1..Len(added) :
                         added[j].idx = i /\ added[j].run = run'.n /\ IsNoise(added[j]) }) = 1 ]_vars

\* C9, its case: a voice whose lead time had passed when it was scheduled, in
\* a collection that holds the same event twice.
LateVoiceKept ==
  /\ Len(run.input) = 2
  /\ run.input[1] = run.input[2]
  /\ Len(transientNodesRef) >= 4
  /\ \E j \in NodeIdx :
       /\ transientNodesRef[j].time - LeadMs < transientNodesRef[j].readAt
       /\ transientNodesRef[j].startAt = transientNodesRef[j].readAt

\* C10: in a run nothing interrupts, onEvent is invoked exactly once for each
\* element of the input, after a delay of max(0, onset - clock) ms, and all
\* invocations precede the end-of-playback timer's isPlaying = false.
PerEventCallback ==
  /\ []((run.n = 1 /\ run.onEvent) =>
          \A i \in 1..Len(run.input) :
            fired[i] + Cardinality({ t \in VisualTimers : t.idx = i }) = 1)
  /\ [](\A t \in VisualTimers :
          /\ t.ev = run.input[t.idx]
          /\ t.delay = Max(0, MappedOnset(run.input, run.durationSec, run.now, t.idx)
                              - (t.fireAt - t.delay)))
  /\ []((run.n = 1 /\ run.onEvent /\ endFires >= 1) =>
          \A i \in 1..Len(run.input) : fired[i] = 1)
  /\ (run.n = 1 /\ run.onEvent) ~> (\A i \in 1..Len(run.input) : fired[i] = 1)

\* C10, its case: every callback of a three-event run has run, and then the
\* end-of-playback timer.
AllCallbacksThenEnd ==
  /\ run.n = 1
  /\ run.onEvent
  /\ Len(run.input) = 3
  /\ \A i \in 1..3 : fired[i] = 1
  /\ endFires = 1
  /\ ~isPlaying

\* C11: while the hook is mounted the noise buffer, the impulse response and
\* the drone are each constructed at most once, whatever start() and stop()
\* calls are made; once a cache is populated it stays populated and no later
\* request constructs again.
ConstructOnce ==
  /\ [](~disposed =>
          /\ builds.noise <= 1 /\ (noiseBufferRef <=> builds.noise = 1)
          /\ builds.reverb <= 1 /\ (reverbBufferRef <=> builds.reverb = 1)
          /\ builds.drone <= 1 /\ (~droneRef.isNull <=> builds.drone = 1))
  /\ [][ ~disposed' =>
           /\ noiseBufferRef => (noiseBufferRef' /\ builds'.noise = builds.noise)
           /\ reverbBufferRef => (reverbBufferRef' /\ builds'.reverb = builds.reverb)
           /\ ~droneRef.isNull => (~droneRef'.isNull /\ builds'.drone = builds.drone) ]_vars

\* C11, its case: a second scheduling pass over two events, after a stop().
BuiltOnceAcrossCycles ==
  /\ ~disposed
  /\ run.n = 2
  /\ stopCount >= 1
  /\ Len(run.input) = 2
  /\ Len(transientNodesRef) = 4
  /\ builds = [noise |-> 1, reverb |-> 1, drone |-> 1]

\* C12: however many times start() is called, also while a run is playing, at
\* most one end-of-playback timer is pending and every pending timer was armed
\* by the most recent scheduling pass and is held in the hook's refs; a pass
\* leaves pending exactly its own timers, one visual timer per event when
\* onEvent is supplied, and no timer of a superseded run ever runs.
NoTimerAccumulation ==
  /\ [](Cardinality(EndTimers) <= 1)
  /\ [](\A t \in timers :
          /\ t.run = run.n
          /\ t.kind = "end" => t.id = endTimeoutRef
          /\ t.kind = "visual" => t.id \in SeqRange(visualTimeoutsRef))
  /\ [][ run'.n = run.n + 1 =>
           /\ timers' \cap timers = {}
           /\ Cardinality({ t \in timers' : t.kind = "end" }) = 1
           /\ Cardinality({ t \in timers' : t.kind = "visual" }) =
                (IF run'.onEvent THEN Len(run'.input) ELSE 0) ]_vars
  /\ [][ (timers' # timers /\ timers' \subseteq timers /\ run' = run
          /\ stopCount' = stopCount) =>
           \A t \in timers \ timers' : t.run = run.n ]_vars

\* C12, its case: a second start() while the first run plays, before any of
\* the first run's timers came due.
RestartedWhilePlaying ==
  /\ run.n = 2
  /\ stopCount = 0
  /\ endFires = 0
  /\ run.onEvent
  /\ clock < StartOffsetMs
  /\ Len(run.input) = 2
  /\ Cardinality(VisualTimers) = 2
  /\ Cardinality(EndTimers) = 1
  /\ nextTimerId > 4

\* C13: at most one ramp is ever pending on the drone's main gain: a start()
\* pass leaves exactly the fade-in to the ambient level, stop() exactly its
\* fade-out to 0 and the end-of-playback timer exactly its fade-out to 0,
\* whatever was pending before.
DroneGainNeverStacks ==
  /\ [](Cardinality(ConsumedBy(droneRef.ramps, clock)) <= 1)
  /\ [][ run'.n = run.n + 1 =>
           droneRef'.ramps = {[target |-> BASE_GAIN, endAt |-> clock + FadeInMs]} ]_vars
  /\ [][ (StopStep /\ ~droneRef'.isNull) =>
           droneRef'.ramps = {[target |-> 0, endAt |-> clock + StopFadeMs]} ]_vars
  /\ [][ (endFires' = endFires + 1 /\ ~droneRef.isNull) =>
           droneRef'.ramps = {[target |-> 0, endAt |-> clock + EndFadeMs]} ]_vars

\* C13, its case: start(), stop() and start() again while the fade-in of the
\* first start() and the fade-out of the stop() would both still be running.
FadeInOverPendingFades ==
  /\ run.n = 2
  /\ stopCount = 1
  /\ lastCall = "start"
  /\ clock < StopFadeMs
  /\ Cardinality(droneRef.ramps) = 1
  /\ \E r \in droneRef.ramps : r.target = BASE_GAIN /\ r.endAt > clock

\* C14: a stop() called before any start(), when no audio context and no drone
\* exist yet, creates no context, drone or buffer and leaves isPlaying false
\* and every timer and voice collection empty; the support flag, and with it
\* the ready state, is as before.  The earlier hook's stop() also leaves such
\* a state as it is.
StopBeforeStart ==
  /\ [][ (StopStep /\ lastCall' = "stop" /\ ctxState = "none" /\ run.n = 0
          /\ inflight = <<>>) =>
           /\ ctxState' = "none"
           /\ ~audioCtxRef'
           /\ droneRef'.isNull
           /\ ~noiseBufferRef'
           /\ ~reverbBufferRef'
           /\ builds' = NoBuilds
           /\ isSupported' = isSupported
           /\ ~isPlaying'
           /\ timers' = {}
           /\ transientNodesRef' = <<>>
           /\ visualTimeoutsRef' = <<>>
           /\ endTimeoutRef' = 0
           /\ inflight' = <<>> ]_vars
  /\ [](ctxState = "none" =>
          LegacyStop(LegacyHook(audioCtxRef, transientNodesRef, isPlaying))
            = LegacyHook(FALSE, <<>>, FALSE))

\* C14, its case: the first call ever made is a stop(), on a platform with
\* Web Audio and with events loaded.
StoppedFirst ==
  /\ calls = 1
  /\ lastCall = "stop"
  /\ stopCount = 1
  /\ isSupported
  /\ ~NoFeatures(features)
  /\ ctxState = "none"
  /\ ~isPlaying

\* C15: when ctx.resume() rejects, the start() call that awaited it ends
\* there: no drone or buffer is created, no voice is added, no timer is
\* armed, isPlaying is as it was, and the call is not queued again; every
\* start() past its guards is pending, rejected or a completed pass, once.
ResumeFailureChangesNothing ==
  /\ [][ rejects' = rejects + 1 =>
           /\ UNCHANGED << droneRef, noiseBufferRef, reverbBufferRef, builds,
                           transientNodesRef, timers, visualTimeoutsRef,
                           endTimeoutRef, nextTimerId, isPlaying, run, ctxState >>
           /\ inflight' = Tail(inflight) ]_vars
  /\ [](run.n + rejects + Len(inflight) <= calls)

\* C15, its case: the only start() made was rejected on a context still
\* suspended.
StartRejected ==
  /\ rejects = 1
  /\ calls = 1
  /\ lastCall = "startAwait"
  /\ inflight = <<>>
  /\ ctxState = "suspended"
  /\ run.n = 0
  /\ droneRef.isNull
  /\ timers = {}
  /\ ~isPlaying

\* C16: once the hook is disposed the active-voice set is empty, no visual or
\* end-of-playback timer is pending (so none can run), the audio context is
\* closed and its ref cleared, and the drone, noise-buffer and reverb-buffer
\* refs are cleared.
DisposalReleasesEverything ==
  disposed =>
    /\ transientNodesRef = <<>>
    /\ timers = {}
    /\ ~audioCtxRef
    /\ ctxState \in {"none", "closed"}
    /\ droneRef.isNull
    /\ ~noiseBufferRef
    /\ ~reverbBufferRef

\* The result of the last mapRange application lies between outMin and outMax.
MappedInRange ==
  \/ (NumLeq(mapped.outMin, mapped.result) /\ NumLeq(mapped.result, mapped.outMax))
  \/ (NumLeq(mapped.outMax, mapped.result) /\ NumLeq(mapped.result, mapped.outMin))

\* C17: whenever inMin # inMax, mapRange's result lies between outMin and
\* outMax, mapRange(inMin, ...) is outMin and mapRange(inMax, ...) is outMax.
MapRangeEndpoints ==
  (mapped.called /\ ~NumEq(mapped.inMin, mapped.inMax)) =>
    /\ MappedInRange
    /\ NumEq(mapped.value, mapped.inMin) => NumEq(mapped.result, mapped.outMin)
    /\ NumEq(mapped.value, mapped.inMax) => NumEq(mapped.result, mapped.outMax)

\* C18: mapRange returns outMin whenever inMin = inMax, and whenever the value
\* is NaN, whatever outMin and outMax are; its result is always a number.
MapRangeDegenerate ==
  mapped.called =>
    /\ NumEq(mapped.inMin, mapped.inMax) => NumEq(mapped.result, mapped.outMin)
    /\ IsNaN(mapped.value) => NumEq(mapped.result, mapped.outMin)
    /\ ~IsNaN(mapped.result)

\* C18, its case: a NaN value on a degenerate input range, with an output
\* range that runs downwards.
MappedNaNOnPoint ==
  /\ mapped.called
  /\ IsNaN(mapped.value)
  /\ NumEq(mapped.inMin, mapped.inMax)
  /\ NumLess(mapped.outMax, mapped.outMin)
  /\ NumEq(mapped.result, mapped.outMin)

\* C19: for every magnitude, NaN, negative and above 7 included, the scale
\* index is an integer in 0..4, so scaleSemis[idx] is defined; index and peak
\* gain do not decrease when the magnitude grows, and magnitude 7 has a
\* strictly higher index and a strictly larger peak gain than magnitude 0.
MagnitudeMapping ==
  voiced.called =>
    /\ SemisDefined(voiced.a.idx)
    /\ SemisDefined(voiced.b.idx)
    /\ NumLeq(Frac(3, 100), voiced.a.peakGain)
    /\ NumLeq(voiced.a.peakGain, Frac(18, 100))
    /\ NumLeq(voiced.a.mag, voiced.b.mag) =>
         /\ NumLeq(voiced.a.idx, voiced.b.idx)
         /\ NumLeq(voiced.a.peakGain, voiced.b.peakGain)
    /\ (NumEq(voiced.a.mag, Num(0)) /\ NumEq(voiced.b.mag, Num(7))) =>
         /\ NumLess(voiced.a.idx, voiced.b.idx)
         /\ NumLess(voiced.a.peakGain, voiced.b.peakGain)
    /\ IsNaN(voiced.a.mag) => NumEq(voiced.a.idx, Num(0))

\* C19, its case: a NaN magnitude next to one above 7.
VoicedNaNAndHuge ==
  /\ voiced.called
  /\ IsNaN(voiced.a.mag)
  /\ NumLess(Num(7), voiced.b.mag)
  /\ NumEq(voiced.a.idx, Num(0))
  /\ NumEq(voiced.b.idx, Num(4))
  /\ NumEq(voiced.b.peakGain, Frac(18, 100))

\* C20: every source of a run stops (5.5 s after the onset for the tone, 4 s
\* for the noise) no later than the run's end-of-playback timer is due, which
\* is no earlier than clock read + startOffset + durationSec + 10 s; when an
\* uninterrupted run has ended by its timer the active-voice set is empty.
ReleaseTailFits ==
  /\ [](\A j \in NodeIdx :
          LET nd == transientNodesRef[j]
          IN  nd.run = run.n =>
                /\ nd.stopAt = nd.time + (IF IsNoise(nd) THEN 4000 ELSE 5500)
                /\ nd.stopAt <= run.now + StartOffsetMs + run.durationSec * 1000 + TailMs
                /\ \A t \in EndTimers : nd.stopAt <= t.fireAt)
  /\ []((run.n = 1 /\ endFires = 1) => transientNodesRef = <<>>)
  /\ (run.n = 1) ~> (endFires = 1 /\ transientNodesRef = <<>>)

\* C20, its case: the last voice of a three-event run is still sounding when
\* every callback has run and the end-of-playback timer is pending.
LastTailSounding ==
  /\ run.n = 1
  /\ Len(run.input) = 3
  /\ endFires = 0
  /\ Cardinality(EndTimers) = 1
  /\ VisualTimers = {}
  /\ Len(transientNodesRef) = 1
  /\ ~IsNoise(transientNodesRef[1])
  /\ clock > run.now + StartOffsetMs + run.durationSec * 1000

\* C21: when the last call made was a stop() and no start() is waiting for
\* ctx.resume() any more, the hook is not playing, the active-voice set is
\* empty and no timer is pending: a start() that was in flight when stop()
\* ran does not undo it by continuing.
StopCancelsStartInFlight ==
  (lastCall = "stop" /\ inflight = <<>>) =>
    (~isPlaying /\ transientNodesRef = <<>> /\ timers = {})

\* C22: whenever isPlaying is true an end-of-playback timer is pending, and
\* it is the one endTimeoutRef holds.
PlayingHasWayOut ==
  isPlaying =>
    /\ Cardinality(EndTimers) = 1
    /\ \A t \in EndTimers : t.id = endTimeoutRef /\ t.fireAt >= clock

\* C22, its case: playing after a start() that resumed from its await once a
\* stop() had run, the end timer of the first run long gone.
PlayingAfterResumedStart ==
  /\ isPlaying
  /\ run.n = 2
  /\ stopCount = 1
  /\ lastCall = "startAwait"
  /\ inflight = <<>>
  /\ Cardinality(EndTimers) = 1

\* C23: in the earlier hook isPlaying goes from true to false only by a
\* stop() or by the end-of-playback timer of the most recent run: a timer
\* armed by a start() that a stop() followed never runs during a later run.
LegacyStopCancelsEndTimer ==
  [][ (isPlaying /\ ~isPlaying') =>
        (StopStep \/ \A t \in timers \ timers' : t.run = run.n) ]_vars

====
